---- MODULE Spec2Model ----
(***************************************************************************)
(* A model of outparamcheck: the rule table built by Run, the visitor that *)
(* finds call expressions and matches them against the table, the address  *)
(* classifier isAddr, the per-package goroutines of run that append to a   *)
(* mutex-guarded list, and reportErrors, which sorts and prints.           *)
(*                                                                         *)
(* Go strings are TLA+ strings; Len, \o and SubSeq act on them as on       *)
(* sequences of bytes.  Go's zero-based indices are kept zero-based in     *)
(* the data (rule indices, Argument) and shifted by one at each access.    *)
(***************************************************************************)
EXTENDS Integers, Sequences, FiniteSets, TLC

\* The most packages one run is given.
MaxPkgs == 2

----------------------------------------------------------------------------
(* strings *)

\* The bytes that occur in the model's strings, in ascending byte order.
Ascii ==
  <<"\t", " ", "&", "'", "(", ")", "*", ",", ".", "/", "0", "1", "2", "3",
    "4", "5", "6", "7", "8", "9", ":", "A", "B", "D", "F", "U", "X", "[", "]",
    "a", "b", "c", "d", "e", "f", "g", "h", "i", "j", "k", "l", "m", "n", "o",
    "p", "q", "r", "s", "t", "u", "v", "w", "x", "y", "z", "{", "}">>

Code(c) == CHOOSE i \in 1..Len(Ascii) : Ascii[i] = c

\* Go's s < t on strings: bytewise lexicographic.
RECURSIVE StrLessFrom(_, _, _)
StrLessFrom(s, t, i) ==
  IF i > Len(t) THEN FALSE
  ELSE IF i > Len(s) THEN TRUE
  ELSE IF SubSeq(s, i, i) = SubSeq(t, i, i) THEN StrLessFrom(s, t, i + 1)
  ELSE Code(SubSeq(s, i, i)) < Code(SubSeq(t, i, i))

StrLess(s, t) == StrLessFrom(s, t, 1)

\* strings.HasSuffix
HasSuffix(s, suffix) ==
  /\ Len(s) >= Len(suffix)
  /\ SubSeq(s, Len(s) - Len(suffix) + 1, Len(s)) = suffix

\* strings.HasPrefix
HasPrefix(s, prefix) ==
  /\ Len(s) >= Len(prefix)
  /\ SubSeq(s, 1, Len(prefix)) = prefix

\* strings.Index: the zero-based offset of the first occurrence, or -1.
Index(s, sub) ==
  LET at == {i \in 0..(Len(s) - Len(sub)) : SubSeq(s, i + 1, i + Len(sub)) = sub}
  IN IF at = {} THEN -1 ELSE CHOOSE i \in at : \A k \in at : i <= k

IsSpace(c) == c \in {" ", "\t"}

\* strings.TrimSpace
TrimSpace(s) ==
  LET keep == {i \in 1..Len(s) : ~IsSpace(SubSeq(s, i, i))}
  IN IF keep = {} THEN ""
     ELSE LET lo == CHOOSE i \in keep : \A k \in keep : i <= k
              hi == CHOOSE i \in keep : \A k \in keep : k <= i
          IN SubSeq(s, lo, hi)

\* strings.Split(s, "\n") of a file's contents is kept as the sequence of
\* its lines; a file that cannot be read splits to one empty line.
Unreadable == <<"">>

----------------------------------------------------------------------------
(* the syntax tree: go/ast nodes as records *)

\* ast.Object.Decl of an identifier.
NoObj == [kind |-> "nil"]
ValueSpecDecl == [kind |-> "ValueSpec"]
FieldDecl == [kind |-> "Field"]
AssignDecl(lhs, rhs) == [kind |-> "AssignStmt", Lhs |-> lhs, Rhs |-> rhs]

\* types.Info.Uses of an identifier: the object it is bound to.
\* obj is the object's kind ("LocalVar" for a variable declared in a
\* function: its Pkg() is the package the function is in); Path is its
\* package's path, "" when Pkg() is nil.
NoUse == [ok |-> FALSE, obj |-> "none", hasPkg |-> FALSE, Path |-> ""]
UseOf(obj, path) == [ok |-> TRUE, obj |-> obj, hasPkg |-> TRUE, Path |-> path]
UseUniverse == [ok |-> TRUE, obj |-> "Builtin", hasPkg |-> FALSE, Path |-> ""]

\* types.Info.Types of an expression.
NoType == [ok |-> FALSE, Type |-> ""]
TypeOf(t) == [ok |-> TRUE, Type |-> t]

Ident(name, decl) == [kind |-> "Ident", Name |-> name, Decl |-> decl, Uses |-> NoUse]
UsedIdent(name, uses) == [kind |-> "Ident", Name |-> name, Decl |-> NoObj, Uses |-> uses]
UnaryExpr(op, x) == [kind |-> "UnaryExpr", Op |-> op, X |-> x]
StarExpr(x) == [kind |-> "StarExpr", X |-> x]
ParenExpr(x) == [kind |-> "ParenExpr", X |-> x]
BinaryExpr(x, op, y) == [kind |-> "BinaryExpr", X |-> x, Op |-> op, Y |-> y]
KeyValueExpr(k, v) == [kind |-> "KeyValueExpr", Key |-> k, Value |-> v]
CompositeLit(elts) == [kind |-> "CompositeLit", Elts |-> elts]
BasicLit(v) == [kind |-> "BasicLit", Value |-> v]
SelectorExpr(x, sel, typ) == [kind |-> "SelectorExpr", X |-> x, Sel |-> sel, Types |-> typ]
FuncLit == [kind |-> "FuncLit"]

\* A call: its callee, its arguments, and where the arguments stand
\* (token.Position of each: one file and line for the call, a column each).
CallExpr(fun, args, file, line, cols) ==
  [kind |-> "CallExpr", Fun |-> fun, Args |-> args,
   Filename |-> file, Line |-> line, Cols |-> cols]

\* Statements.
ExprStmt(x) == [kind |-> "ExprStmt", X |-> x]
AssignStmt(lhs, rhs) == [kind |-> "AssignStmt", Lhs |-> lhs, Rhs |-> rhs]
GoStmt(call) == [kind |-> "GoStmt", Call |-> call]
DeferStmt(call) == [kind |-> "DeferStmt", Call |-> call]
SendStmt(ch, v) == [kind |-> "SendStmt", Chan |-> ch, Value |-> v]
ReturnStmt(results) == [kind |-> "ReturnStmt", Results |-> results]
CaseClause(list) == [kind |-> "CaseClause", List |-> list]
SwitchStmt(tag, body) == [kind |-> "SwitchStmt", Tag |-> tag, Body |-> body]
IfStmt(cond) == [kind |-> "IfStmt", Cond |-> cond]
ForStmt(cond) == [kind |-> "ForStmt", Cond |-> cond]
DeclStmt == [kind |-> "DeclStmt"]

----------------------------------------------------------------------------
(* the address classifier *)

RECURSIVE isAddr(_)

\* isAddr without the StarExpr case: *&x is taken for a value.
isAddrNoStar(expr) ==
  CASE expr.kind = "UnaryExpr" -> expr.Op = "&"
    [] expr.kind = "Ident" ->
         IF expr.Decl.kind = "AssignStmt"
         THEN isAddr(expr.Decl.Rhs[1])
         ELSE expr.Name = "nil"
    [] OTHER -> FALSE

\* isAddr that does not follow an identifier to its assignment.
isAddrNoTrace(expr) ==
  CASE expr.kind = "UnaryExpr" -> expr.Op = "&"
    [] expr.kind = "StarExpr" -> expr.X.kind = "UnaryExpr" /\ expr.X.Op = "&"
    [] expr.kind = "Ident" -> expr.Name = "nil"
    [] OTHER -> FALSE

isAddr(expr) ==
  CASE expr.kind = "UnaryExpr" -> expr.Op = "&"
    [] expr.kind = "StarExpr" -> expr.X.kind = "UnaryExpr" /\ expr.X.Op = "&"
    [] expr.kind = "Ident" ->
         IF expr.Decl.kind = "AssignStmt"
         THEN isAddr(expr.Decl.Rhs[1])
         ELSE expr.Name = "nil"
    [] OTHER -> FALSE

----------------------------------------------------------------------------
(* the call-site resolver *)

\* fmt.Sprintf("%v.%v", a, b)
Qualified(a, b) == a \o "." \o b

NotOk == [key |-> "", name |-> "", ok |-> FALSE]

keyAndName(call) ==
  LET target == call.Fun IN
  CASE target.kind = "Ident" ->
         IF target.Uses.ok /\ target.Uses.hasPkg
         THEN [key |-> Qualified(target.Uses.Path, target.Name),
               name |-> target.Name, ok |-> TRUE]
         ELSE NotOk
    [] target.kind = "SelectorExpr" ->
         IF /\ target.X.kind = "Ident"
            /\ target.X.Uses.ok
            /\ target.X.Uses.obj = "PkgName"
         THEN [key |-> Qualified(target.X.Uses.Path, target.Sel),
               name |-> target.Sel, ok |-> TRUE]
         ELSE IF target.Types.ok
         THEN [key |-> Qualified(target.Types.Type, target.Sel),
               name |-> target.Sel, ok |-> TRUE]
         ELSE NotOk
    [] OTHER -> NotOk

----------------------------------------------------------------------------
(* the file system the run reads source lines from *)

SourceLines ==
  [f \in {"a.go", "b.go", "/go/src/m/main.go"} |->
     CASE f = "a.go" ->
            <<"package a", "", "\tpkg.Foo(x, y) // out", "", "", "", "", "", "",
              "pkg.Foo(x, &y); pkg.Foo(nil, y)">>
       [] f = "b.go" ->
            <<"package b", "", "", "", "  other.Foo(v)", "pkg.FooBar(v)">>
       [] OTHER ->
            <<"", "package main", "", "", "", "", "", "", "", "",
              "\tjson.Unmarshal(j, x)", "\tjson.Unmarshal(j, &x)",
              "\tjson.Unmarshal(j, *&x)", "\tjson.Unmarshal(j, nil)">>]

\* ioutil.ReadFile followed by strings.Split(contents, "\n")
ReadLines(filename) ==
  IF filename \in DOMAIN SourceLines THEN SourceLines[filename] ELSE Unreadable

----------------------------------------------------------------------------
(* the rule matcher *)

\* token.Position of argument i (zero-based) of a call.
Position(call, i) ==
  [Filename |-> call.Filename, Line |-> call.Line, Column |-> call.Cols[i + 1]]

\* The OutParamError that errorAt appends for argument i of a call.
errorAt(call, i, method) ==
  LET position == Position(call, i)
      lines == ReadLines(position.Filename)
      line == IF position.Line - 1 < Len(lines)
              THEN TrimSpace(lines[position.Line])
              ELSE ""
  IN [Pos |-> position, Line |-> line, Method |-> method, Argument |-> i]

\* What a piece of the traversal does: it panics, or it appends errors.
Panic == [panic |-> TRUE, errors |-> <<>>]
Appends(errors) == [panic |-> FALSE, errors |-> errors]

\* a, then b: a panic ends the goroutine, and what it had collected is lost.
Then(a, b) ==
  IF a.panic \/ b.panic THEN Panic ELSE Appends(a.errors \o b.errors)

ThenAll(A, B) == {Then(a, b) : a \in A, b \in B}

\* call.Args[i]: an index outside the slice panics.
InRange(call, i) == 0 <= i /\ i < Len(call.Args)

\* The inner loop of processExpression: one rule's indices, in their order.
RECURSIVE checkOuts(_, _, _)
checkOuts(call, method, outs) ==
  IF outs = <<>> THEN Appends(<<>>)
  ELSE LET i == Head(outs) IN
       IF ~InRange(call, i) THEN Panic
       ELSE Then(IF ~isAddr(call.Args[i + 1])
                 THEN Appends(<<errorAt(call, i, method)>>)
                 ELSE Appends(<<>>),
                 checkOuts(call, method, Tail(outs)))

\* The orders in which a range over a map may yield the keys in S.
RECURSIVE Orders(_)
Orders(S) ==
  IF S = {} THEN {<<>>}
  ELSE UNION {{<<k>> \o rest : rest \in Orders(S \ {k})} : k \in S}

\* Matching by equality instead of by suffix.
MatchesExactly(key, name) == key = name

\* The rule of key name applies to the call of identity key.
Matches(key, name) == HasSuffix(key, name)

\* The outer loop of processExpression over v.cfg, keys taken in this order.
RECURSIVE rangeCfg(_, _, _, _)

\* The outer loop leaving at the first key that matches.
rangeCfgFirstMatch(call, res, cfg, order) ==
  IF order = <<>> THEN Appends(<<>>)
  ELSE LET name == Head(order) IN
       IF Matches(res.key, name)
       THEN checkOuts(call, res.name, cfg[name])
       ELSE rangeCfg(call, res, cfg, Tail(order))

rangeCfg(call, res, cfg, order) ==
  IF order = <<>> THEN Appends(<<>>)
  ELSE LET name == Head(order) IN
       Then(IF Matches(res.key, name)
            THEN checkOuts(call, res.name, cfg[name])
            ELSE Appends(<<>>),
            rangeCfg(call, res, cfg, Tail(order)))

\* The CallExpr case of processExpression: every outcome the map's
\* iteration order allows.
processCall(call, cfg) ==
  LET res == keyAndName(call) IN
  IF ~res.ok THEN {Appends(<<>>)}
  ELSE {rangeCfg(call, res, cfg, order) : order \in Orders(DOMAIN cfg)}

RECURSIVE processExpression(_, _)
RECURSIVE processAll(_, _)
processExpression(expr, cfg) ==
  CASE expr.kind = "BinaryExpr" ->
         ThenAll(processExpression(expr.X, cfg), processExpression(expr.Y, cfg))
    [] expr.kind = "KeyValueExpr" -> processExpression(expr.Value, cfg)
    [] expr.kind = "CompositeLit" -> processAll(expr.Elts, cfg)
    [] expr.kind = "CallExpr" -> processCall(expr, cfg)
    [] OTHER -> {Appends(<<>>)}

processAll(exprs, cfg) ==
  IF exprs = <<>> THEN {Appends(<<>>)}
  ELSE ThenAll(processExpression(Head(exprs), cfg), processAll(Tail(exprs), cfg))

\* The expressions of the case clauses of a switch body, in order.
RECURSIVE CaseLists(_)
CaseLists(body) ==
  IF body = <<>> THEN <<>>
  ELSE (IF Head(body).kind = "CaseClause" THEN Head(body).List ELSE <<>>)
       \o CaseLists(Tail(body))

\* The expressions visitor.Visit hands to processExpression, by the
\* node's type; none for a node of any other type.
NodeExprs(node) ==
  CASE node.kind = "AssignStmt" -> node.Rhs
    [] node.kind = "GoStmt" -> <<node.Call>>
    [] node.kind = "DeferStmt" -> <<node.Call>>
    [] node.kind = "SendStmt" -> <<node.Value>>
    [] node.kind = "ReturnStmt" -> node.Results
    [] node.kind = "SwitchStmt" -> CaseLists(node.Body)
    [] node.kind = "ExprStmt" -> <<node.X>>
    [] OTHER -> <<>>

\* visitor.Visit of one node.
Visit(node, cfg) == processAll(NodeExprs(node), cfg)

\* The calls processExpression inspects below an expression: it descends
\* through binary expressions, key-value values and composite literals.
RECURSIVE CallsReached(_)
RECURSIVE CallsReachedAll(_)
CallsReached(expr) ==
  CASE expr.kind = "BinaryExpr" -> CallsReached(expr.X) \cup CallsReached(expr.Y)
    [] expr.kind = "KeyValueExpr" -> CallsReached(expr.Value)
    [] expr.kind = "CompositeLit" -> CallsReachedAll(expr.Elts)
    [] expr.kind = "CallExpr" -> {expr}
    [] OTHER -> {}

CallsReachedAll(exprs) ==
  IF exprs = <<>> THEN {} ELSE CallsReached(Head(exprs)) \cup CallsReachedAll(Tail(exprs))

\* The calls processExpression inspects below an expression, one entry for
\* each time it comes to the CallExpr case, in the order it does.
RECURSIVE Inspected(_)
RECURSIVE InspectedAll(_)
Inspected(expr) ==
  CASE expr.kind = "BinaryExpr" -> Inspected(expr.X) \o Inspected(expr.Y)
    [] expr.kind = "KeyValueExpr" -> Inspected(expr.Value)
    [] expr.kind = "CompositeLit" -> InspectedAll(expr.Elts)
    [] expr.kind = "CallExpr" -> <<expr>>
    [] OTHER -> <<>>

InspectedAll(exprs) ==
  IF exprs = <<>> THEN <<>> ELSE Inspected(Head(exprs)) \o InspectedAll(Tail(exprs))

\* The calls inspected in the Visit calls of a walk over these nodes.
RECURSIVE InspectedInWalk(_)
InspectedInWalk(nodes) ==
  IF nodes = <<>> THEN <<>>
  ELSE InspectedAll(NodeExprs(Head(nodes))) \o InspectedInWalk(Tail(nodes))

\* ast.Walk(v, astFile): Visit on each node of the file, in traversal order.
RECURSIVE Walk(_, _)
Walk(nodes, cfg) ==
  IF nodes = <<>> THEN {Appends(<<>>)}
  ELSE ThenAll(Visit(Head(nodes), cfg), Walk(Tail(nodes), cfg))

\* The loop over v.pkg.Syntax.
RECURSIVE WalkFiles(_, _)
WalkFiles(files, cfg) ==
  IF files = <<>> THEN {Appends(<<>>)}
  ELSE ThenAll(Walk(Head(files), cfg), WalkFiles(Tail(files), cfg))

----------------------------------------------------------------------------
(* rule tables *)

\* A Config maps identity suffixes to zero-based argument indices.
EmptyCfg == [k \in {} |-> <<>>]

\* The built-in table.
defaultCfg == [k \in {"encoding/json.Unmarshal"} |-> <<1>>]

\* The two loops in the other order: the user's entries written last.
BuildCfgUserLast(usr, def) ==
  [k \in DOMAIN usr \cup DOMAIN def |-> IF k \in DOMAIN usr THEN usr[k] ELSE def[k]]

\* Run's two loops: the user's entries are copied first, then the default
\* entries are written over them.
BuildCfg(usr, def) ==
  LET afterUser == [k \in DOMAIN usr |-> usr[k]]
  IN [k \in DOMAIN afterUser \cup DOMAIN def |->
        IF k \in DOMAIN def THEN def[k] ELSE afterUser[k]]

\* What loadCfg or loadCfgFromPath returns for a -config parameter.
Loaded(cfgv) == [ok |-> TRUE, cfg |-> cfgv]
LoadFailed == [ok |-> FALSE, cfg |-> EmptyCfg]

UserTables ==
  { [k \in {"pkg.Foo"} |-> <<0>>],
    [k \in {"pkg.Foo"} |-> <<0, 1>>],
    [k \in {"pkg.Foo"} |-> <<2>>],
    [k \in {"pkg.Foo", "Foo"} |-> IF k = "Foo" THEN <<0>> ELSE <<1>>],
    [k \in {"pkg.Foo", "Foo"} |-> <<0>>],
    [k \in {"encoding/json.Unmarshal", "pkg.FooBar"} |-> <<0>>] }

\* The -config parameter with what loading it yields: none given, a JSON
\* literal, or '@' and a path.
ConfigInputs ==
  {<<"", Loaded(EmptyCfg)>>, <<"@rules.json", LoadFailed>>, <<"{", LoadFailed>>}
  \cup {<<"{...}", Loaded(t)>> : t \in UserTables}

----------------------------------------------------------------------------
(* the packages a run may be given *)

jsonPkg == UsedIdent("json", UseOf("PkgName", "encoding/json"))
pkgPkg == UsedIdent("pkg", UseOf("PkgName", "pkg"))
otherPkg == UsedIdent("other", UseOf("PkgName", "vendor/other/pkg"))

\* []byte("..."): a conversion, a CallExpr whose Fun is an ArrayType.
bytesConv(file, line) ==
  CallExpr([kind |-> "ArrayType"], <<BasicLit("...")>>, file, line, <<14>>)

\* var x interface{}
xVar == Ident("x", ValueSpecDecl)
\* x := A{}
xStruct == Ident("x", AssignDecl(<<"x">>, <<CompositeLit(<<>>)>>))
\* pointerX := &x
pointerX == Ident("pointerX", AssignDecl(<<"pointerX">>, <<UnaryExpr("&", xStruct)>>))
\* the predeclared nil: the parser resolves it to no object
nilIdent == Ident("nil", NoObj)

jVar(file) == Ident("j", AssignDecl(<<"j">>, <<bytesConv(file, 9)>>))

Unmarshal(arg, file, line) ==
  CallExpr(SelectorExpr(jsonPkg, "Unmarshal", NoType), <<jVar(file), arg>>,
           file, line, <<20, 23>>)

\* The test fixture "interface".
MainFile ==
  LET f == "/go/src/m/main.go" IN
  << AssignStmt(<<jVar(f)>>, <<bytesConv(f, 9)>>),
     DeclStmt,
     ExprStmt(Unmarshal(xVar, f, 11)),
     ExprStmt(Unmarshal(UnaryExpr("&", xVar), f, 12)),
     ExprStmt(Unmarshal(StarExpr(UnaryExpr("&", xVar)), f, 13)),
     ExprStmt(Unmarshal(nilIdent, f, 14)) >>

Foo(recv, sel, args, file, line, cols) ==
  CallExpr(SelectorExpr(recv, sel, NoType), args, file, line, cols)

AFile ==
  LET f == "a.go" IN
  << AssignStmt(<<xStruct>>, <<CompositeLit(<<>>)>>),
     AssignStmt(<<pointerX>>, <<UnaryExpr("&", xStruct)>>),
     ExprStmt(Foo(pkgPkg, "Foo", <<xStruct, pointerX>>, f, 3, <<10, 13>>)),
     ExprStmt(Foo(pkgPkg, "Foo", <<xStruct, UnaryExpr("&", xVar)>>, f, 10, <<9, 12>>)),
     ExprStmt(Foo(pkgPkg, "Foo", <<nilIdent, xVar>>, f, 10, <<25, 30>>)) >>

BFile ==
  LET f == "b.go"
      v == Ident("v", AssignDecl(<<"v">>, <<BasicLit("1")>>))
  IN << AssignStmt(<<v>>, <<BasicLit("1")>>),
        IfStmt(Ident("true", NoObj)),
        ExprStmt(Foo(otherPkg, "Foo", <<v>>, f, 5, <<13>>)),
        ExprStmt(Foo(pkgPkg, "FooBar", <<v>>, f, 6, <<12>>)) >>

Package(id, errors, syntax) == [ID |-> id, Errors |-> errors, Syntax |-> syntax]

Packages ==
  { Package("m", <<>>, <<MainFile>>),
    Package("a", <<>>, <<AFile>>),
    Package("b", <<>>, <<BFile>>),
    Package("bad1", <<"bad1.go:1:1: expected 'package'">>, <<>>),
    Package("bad2", <<"bad2.go:3:5: undefined: y">>, <<>>) }

\* The sequences over S of length at most n.
RECURSIVE SeqsUpTo(_, _)
SeqsUpTo(S, n) ==
  IF n = 0 THEN {<<>>}
  ELSE LET shorter == SeqsUpTo(S, n - 1)
       IN shorter \cup {Append(q, x) : q \in {r \in shorter : Len(r) = n - 1}, x \in S}

\* What packages.Load returns for the paths: an error of its own, or packages.
LoadInputs ==
  {[err |-> TRUE, pkgs |-> <<>>]}
  \cup {[err |-> FALSE, pkgs |-> ps] : ps \in SeqsUpTo(Packages, MaxPkgs)}

----------------------------------------------------------------------------
(* the reporter *)

\* Less comparing file names only.
LessByFile(ei, ej) == StrLess(ei.Pos.Filename, ej.Pos.Filename)

\* byLocation.Less on two errors.
Less(ei, ej) ==
  LET pi == ei.Pos
      pj == ej.Pos
  IN IF pi.Filename # pj.Filename THEN StrLess(pi.Filename, pj.Filename)
     ELSE IF pi.Line # pj.Line THEN pi.Line < pj.Line
     ELSE IF pi.Column < pj.Column THEN pi.Column < pj.Column
     ELSE StrLess(ei.Line, ej.Line)

RemoveAt(s, k) == SubSeq(s, 1, k - 1) \o SubSeq(s, k + 1, Len(s))

FirstAt(s, x) == CHOOSE k \in 1..Len(s) : s[k] = x /\ \A h \in 1..(k - 1) : s[h] # x

\* The rearrangements of s that are ascending as Less determines: no
\* element is Less than one placed before it.
RECURSIVE Ascending(_)
Ascending(s) ==
  IF s = <<>> THEN {<<>>}
  ELSE LET first == {s[k] : k \in {h \in 1..Len(s) :
                                     \A g \in 1..Len(s) : ~Less(s[g], s[h])}}
       IN UNION {{<<m>> \o rest : rest \in Ascending(RemoveAt(s, FirstAt(s, m)))}
                 : m \in first}

\* Every rearrangement of s.
RECURSIVE Rearranged(_)
Rearranged(s) ==
  IF s = <<>> THEN {<<>>}
  ELSE UNION {{<<s[k]>> \o rest : rest \in Rearranged(RemoveAt(s, k))}
              : k \in 1..Len(s)}

\* No sort at all.
sortNothing(s) == {s}

\* sort.Sort(byLocation(errs)): not stable; ascending by Less when Less
\* orders the elements, and some rearrangement when it does not.
sortByLocation(s) ==
  IF Ascending(s) # {} THEN Ascending(s) ELSE Rearranged(s)

\* humanize.Ordinal: the number and its suffix.
Ordinal(n) ==
  <<n, IF (n % 100) \in {11, 12, 13} THEN "th"
       ELSE CASE n % 10 = 1 -> "st"
              [] n % 10 = 2 -> "nd"
              [] n % 10 = 3 -> "rd"
              [] OTHER -> "th">>

\* OutParamError.Error: the printed line, as its parts.  The position loses
\* everything up to and including "/src/", the source line its comment.
Error(err) ==
  LET file == err.Pos.Filename
      i == Index(file, "/src/")
      shown == IF i # -1 THEN SubSeq(file, i + Len("/src/") + 1, Len(file)) ELSE file
      comment == Index(err.Line, "//")
      line == IF comment # -1 THEN SubSeq(err.Line, 1, comment) ELSE err.Line
  IN [pos |-> <<shown, err.Pos.Line, err.Pos.Column>>,
      line |-> TrimSpace(line),
      ord |-> Ordinal(err.Argument + 1),
      method |-> err.Method]

\* plural with the test of the count inverted.
pluralInverted(count, singular, pluralNoun) ==
  IF count # 1 THEN <<count, singular>> ELSE <<count, pluralNoun>>

\* plural: the count and the noun, as fmt.Sprintf("%d %s") joins them.
plural(count, singular, pluralNoun) ==
  IF count = 1 THEN <<count, singular>> ELSE <<count, pluralNoun>>

----------------------------------------------------------------------------
(* Run, run and the goroutines *)

VARIABLES
  cfgParam,   \* the -config parameter
  usrCfg,     \* what loading it returns
  loaded,     \* what packages.Load returns for the paths
  cfg,        \* Run's cfg
  pkgs,       \* the packages handed to run
  pc,         \* where main is
  next,       \* run's loop: how many packages have a goroutine
  wg,         \* the WaitGroup's counter
  mut,        \* the mutex: 0, or the goroutine holding it
  gpc,        \* where each goroutine is
  verrors,    \* each goroutine's v.errors
  appends,    \* how many times each goroutine has appended to errs
  errs,       \* run's errs
  stdout,     \* the lines printed
  printed,    \* reportErrors' loop: how many of errs are printed
  ret,        \* what Run returned
  exitCode,   \* the process's exit code, -1 while it runs
  todo,       \* a single visitor's walk: the nodes not yet visited
  visited,    \* ... the nodes visited
  verr,       \* ... its v.errors
  vpanic      \* ... whether it panicked

runVars == <<cfgParam, usrCfg, loaded, pkgs, pc, next, wg, mut, gpc, verrors,
             appends, errs, stdout, printed, ret, exitCode>>
walkVars == <<todo, visited, verr, vpanic>>
vars == <<runVars, cfg, walkVars>>

NoReturn == [kind |-> "none"]
NilReturn == [kind |-> "nil"]

Goroutines == 1..Len(pkgs)

Init ==
  /\ \E c \in ConfigInputs : cfgParam = c[1] /\ usrCfg = c[2]
  /\ loaded \in LoadInputs
  /\ cfg = EmptyCfg
  /\ pkgs = <<>>
  /\ pc = "Run"
  /\ next = 0
  /\ wg = 0
  /\ mut = 0
  /\ gpc = <<>>
  /\ verrors = <<>>
  /\ appends = <<>>
  /\ errs = <<>>
  /\ stdout = <<>>
  /\ printed = 0
  /\ ret = NoReturn
  /\ exitCode = -1
  /\ todo = <<>>
  /\ visited = <<>>
  /\ verr = <<>>
  /\ vpanic = FALSE

\* main's exit: status 1 with the error on stderr, else status 0.
Return(r) ==
  /\ ret' = r
  /\ exitCode' = IF r.kind = "nil" THEN 0 ELSE 1
  /\ pc' = "exited"

\* Run, lines 24-43: load the user's table and build cfg.
RunConfig ==
  /\ pc = "Run"
  /\ IF cfgParam # "" /\ ~usrCfg.ok
     THEN /\ Return([kind |-> "config", param |-> cfgParam])
          /\ cfg' = cfg
     ELSE /\ cfg' = BuildCfg(IF cfgParam # "" THEN usrCfg.cfg ELSE EmptyCfg, defaultCfg)
          /\ pc' = "load"
          /\ UNCHANGED <<ret, exitCode>>
  /\ UNCHANGED <<cfgParam, usrCfg, loaded, pkgs, next, wg, mut, gpc, verrors,
                 appends, errs, stdout, printed, walkVars>>

\* The first package with load errors, in the order packages.Load gave.
FirstFailing(ps) ==
  CHOOSE k \in 1..Len(ps) :
    /\ Len(ps[k].Errors) > 0
    /\ \A h \in 1..(k - 1) : Len(ps[h].Errors) = 0

\* load and Run's check of its result.
Load ==
  /\ pc = "load"
  /\ IF loaded.err
     THEN /\ Return([kind |-> "load", pkg |-> "", errors |-> <<>>])
          /\ UNCHANGED <<pkgs, gpc, verrors, appends>>
     ELSE IF \E k \in 1..Len(loaded.pkgs) : Len(loaded.pkgs[k].Errors) > 0
     THEN /\ LET bad == loaded.pkgs[FirstFailing(loaded.pkgs)]
             IN Return([kind |-> "load", pkg |-> bad.ID, errors |-> bad.Errors])
          /\ UNCHANGED <<pkgs, gpc, verrors, appends>>
     ELSE /\ pkgs' = loaded.pkgs
          /\ gpc' = [g \in 1..Len(loaded.pkgs) |-> "unstarted"]
          /\ verrors' = [g \in 1..Len(loaded.pkgs) |-> <<>>]
          /\ appends' = [g \in 1..Len(loaded.pkgs) |-> 0]
          /\ pc' = "run"
          /\ UNCHANGED <<ret, exitCode>>
  /\ UNCHANGED <<cfgParam, usrCfg, loaded, cfg, next, wg, mut, errs, stdout,
                 printed, walkVars>>

\* One turn of run's loop: wg.Add(1) and the go statement.
Spawn ==
  /\ pc = "run"
  /\ next < Len(pkgs)
  /\ wg' = wg + 1
  /\ next' = next + 1
  /\ gpc' = [gpc EXCEPT ![next + 1] = "walk"]
  /\ UNCHANGED <<cfgParam, usrCfg, loaded, cfg, pkgs, pc, mut, verrors, appends,
                 errs, stdout, printed, ret, exitCode, walkVars>>

\* wg.Wait() that does not wait.
WaitReadyAtOnce == TRUE

\* wg.Wait() lets main on when the counter is zero.
WaitReady == wg = 0

\* The end of run's loop, wg.Wait() and run's return.
Wait ==
  /\ pc = "run"
  /\ next = Len(pkgs)
  /\ WaitReady
  /\ pc' = "ran"
  /\ UNCHANGED <<cfgParam, usrCfg, loaded, cfg, pkgs, next, wg, mut, gpc, verrors,
                 appends, errs, stdout, printed, ret, exitCode, walkVars>>

\* Run's test of len(errs), and reportErrors' sort.
Sort ==
  /\ pc = "ran"
  /\ IF Len(errs) > 0
     THEN /\ errs' \in sortByLocation(errs)
          /\ pc' = "print"
          /\ UNCHANGED <<ret, exitCode>>
     ELSE /\ Return(NilReturn)
          /\ errs' = errs
  /\ UNCHANGED <<cfgParam, usrCfg, loaded, cfg, pkgs, next, wg, mut, gpc, verrors,
                 appends, stdout, printed, walkVars>>

\* One turn of reportErrors' loop.
PrintLine ==
  /\ pc = "print"
  /\ printed < Len(errs)
  /\ stdout' = Append(stdout, Error(errs[printed + 1]))
  /\ printed' = printed + 1
  /\ UNCHANGED <<cfgParam, usrCfg, loaded, cfg, pkgs, pc, next, wg, mut, gpc,
                 verrors, appends, errs, ret, exitCode, walkVars>>

\* Run's failure after the report.
Fail ==
  /\ pc = "print"
  /\ printed = Len(errs)
  /\ Return([kind |-> "violations", msg |-> plural(Len(errs), "error", "errors")])
  /\ UNCHANGED <<cfgParam, usrCfg, loaded, cfg, pkgs, next, wg, mut, gpc, verrors,
                 appends, errs, stdout, printed, walkVars>>

\* The process is alive: no goroutine has panicked.
Alive == pc # "killed"

\* The goroutine's traversal of its package's files.  A panic in a
\* goroutine ends the process, and with it main and every goroutine.
GoWalk(g) ==
  /\ Alive
  /\ gpc[g] = "walk"
  /\ \E out \in WalkFiles(pkgs[g].Syntax, cfg) :
       IF out.panic
       THEN /\ gpc' = [h \in DOMAIN gpc |-> IF h = g THEN "panicked" ELSE "killed"]
            /\ pc' = "killed"
            /\ exitCode' = 2
            /\ verrors' = verrors
       ELSE /\ verrors' = [verrors EXCEPT ![g] = out.errors]
            /\ gpc' = [gpc EXCEPT ![g] = "lock"]
            /\ UNCHANGED <<pc, exitCode>>
  /\ UNCHANGED <<cfgParam, usrCfg, loaded, cfg, pkgs, next, wg, mut, appends,
                 errs, stdout, printed, ret, walkVars>>

\* A lock that is granted while held.
LockFreeAlways == TRUE

\* mut.Lock() returns when no goroutine holds the mutex.
LockFree == mut = 0

\* mut.Lock()
GoLock(g) ==
  /\ Alive
  /\ gpc[g] = "lock"
  /\ LockFree
  /\ mut' = g
  /\ gpc' = [gpc EXCEPT ![g] = "append"]
  /\ UNCHANGED <<cfgParam, usrCfg, loaded, cfg, pkgs, pc, next, wg, verrors,
                 appends, errs, stdout, printed, ret, exitCode, walkVars>>

\* errs = append(errs, v.errors...)
GoAppend(g) ==
  /\ Alive
  /\ gpc[g] = "append"
  /\ errs' = errs \o verrors[g]
  /\ appends' = [appends EXCEPT ![g] = @ + 1]
  /\ gpc' = [gpc EXCEPT ![g] = "unlock"]
  /\ UNCHANGED <<cfgParam, usrCfg, loaded, cfg, pkgs, pc, next, wg, mut, verrors,
                 stdout, printed, ret, exitCode, walkVars>>

\* the deferred mut.Unlock()
GoUnlock(g) ==
  /\ Alive
  /\ gpc[g] = "unlock"
  /\ mut' = 0
  /\ gpc' = [gpc EXCEPT ![g] = "wgDone"]
  /\ UNCHANGED <<cfgParam, usrCfg, loaded, cfg, pkgs, pc, next, wg, verrors,
                 appends, errs, stdout, printed, ret, exitCode, walkVars>>

\* the deferred wg.Done()
GoDone(g) ==
  /\ Alive
  /\ gpc[g] = "wgDone"
  /\ wg' = wg - 1
  /\ gpc' = [gpc EXCEPT ![g] = "done"]
  /\ UNCHANGED <<cfgParam, usrCfg, loaded, cfg, pkgs, pc, next, mut, verrors,
                 appends, errs, stdout, printed, ret, exitCode, walkVars>>

Main == RunConfig \/ Load \/ Spawn \/ Wait \/ Sort \/ PrintLine \/ Fail

\* What goroutine g does once its walk has returned.
AfterWalk(g) ==
  /\ g \in Goroutines
  /\ (GoLock(g) \/ GoAppend(g) \/ GoUnlock(g) \/ GoDone(g))

Goroutine(g) == g \in Goroutines /\ (GoWalk(g) \/ AfterWalk(g))

Next ==
  \/ RunConfig
  \/ Load
  \/ Spawn
  \/ Wait
  \/ Sort
  \/ PrintLine
  \/ Fail
  \/ \E g \in Goroutines : GoWalk(g)
  \/ \E g \in Goroutines : GoLock(g)
  \/ \E g \in Goroutines : GoAppend(g)
  \/ \E g \in Goroutines : GoUnlock(g)
  \/ \E g \in Goroutines : GoDone(g)

Spec == Init /\ [][Next]_vars

\* The scheduler runs every goroutine that can run: a goroutine whose
\* walk has returned and that can take its next step takes it.
FairSpec == Spec /\ \A g \in 1..MaxPkgs : WF_vars(AfterWalk(g))

----------------------------------------------------------------------------
(* one visitor walking one file, node by node *)

\* The tables Run can hand to a visitor.
RuleTables == {BuildCfg(t, defaultCfg) : t \in UserTables \cup {EmptyCfg}}

\* Callees, one of each shape keyAndName tells apart.
CalleeShapes ==
  { SelectorExpr(jsonPkg, "Unmarshal", NoType),
    SelectorExpr(pkgPkg, "Foo", NoType),
    SelectorExpr(otherPkg, "Foo", NoType),
    SelectorExpr(pkgPkg, "FooBar", NoType),
    \* Foo, a function of the package itself or of a dot-imported one
    UsedIdent("Foo", UseOf("Func", "mypkg")),
    \* Foo, a local variable of package pkg holding a function value
    UsedIdent("Foo", UseOf("LocalVar", "pkg")),
    \* a builtin: its object has no package
    UsedIdent("len", UseUniverse),
    \* a name the type checker recorded no use for
    UsedIdent("g", NoUse),
    \* dec.Decode, a method of a value of known type
    SelectorExpr(Ident("dec", ValueSpecDecl), "Decode", TypeOf("*encoding/json.Decoder")),
    \* a selector on an expression without type information
    SelectorExpr(Ident("s", NoObj), "Foo", NoType),
    FuncLit }

\* q := pointerX and r := x: identifiers assigned from identifiers
qChain == Ident("q", AssignDecl(<<"q">>, <<pointerX>>))
rChain == Ident("r", AssignDecl(<<"r">>, <<xStruct>>))
\* a, p := A{}, &x
pSecond == Ident("p", AssignDecl(<<"a", "p">>, <<CompositeLit(<<>>), UnaryExpr("&", xVar)>>))
\* p, a := &x, A{}
aSecond == Ident("a", AssignDecl(<<"p", "a">>, <<UnaryExpr("&", xVar), CompositeLit(<<>>)>>))

ArgExprs ==
  { UnaryExpr("&", xVar),
    UnaryExpr("-", xVar),
    StarExpr(UnaryExpr("&", xVar)),
    StarExpr(pointerX),
    ParenExpr(UnaryExpr("&", xVar)),
    CompositeLit(<<>>),
    nilIdent,
    xVar,
    xStruct,
    pointerX,
    qChain,
    rChain,
    pSecond,
    aSecond }

\* The most arguments a generated call has.
MaxArgs == 2

\* A file holding one call statement, at line 3 of a.go.
CallFiles ==
  { << ExprStmt(CallExpr(fun, args, "a.go", 3, [k \in 1..Len(args) |-> 7 + 3 * k])) >>
    : fun \in CalleeShapes, args \in SeqsUpTo(ArgExprs, MaxArgs) }

\* The test fixture "struct based".
StructFile ==
  LET f == "/go/src/m/main.go" IN
  << AssignStmt(<<xStruct>>, <<CompositeLit(<<>>)>>),
     AssignStmt(<<pointerX>>, <<UnaryExpr("&", xStruct)>>),
     AssignStmt(<<jVar(f)>>, <<bytesConv(f, 9)>>),
     ExprStmt(Unmarshal(xStruct, f, 11)),
     ExprStmt(Unmarshal(pointerX, f, 12)),
     ExprStmt(Unmarshal(UnaryExpr("&", xStruct), f, 13)),
     ExprStmt(Unmarshal(StarExpr(UnaryExpr("&", xStruct)), f, 14)),
     ExprStmt(Unmarshal(nilIdent, f, 15)) >>

\* The test fixture "declared within if block": ast.Walk reaches the if
\* statement, then its init assignment, then the call in its body.
IfFile ==
  LET f == "/go/src/m/main.go" IN
  << AssignStmt(<<xStruct>>, <<CompositeLit(<<>>)>>),
     AssignStmt(<<jVar(f)>>, <<bytesConv(f, 9)>>),
     IfStmt(Ident("true", NoObj)),
     AssignStmt(<<pointerX>>, <<UnaryExpr("&", xStruct)>>),
     ExprStmt(Unmarshal(pointerX, f, 12)) >>

\* A call pkg.Foo(x) in each kind of statement, in a file that is not read.
KindsFile ==
  LET c(line) == Foo(pkgPkg, "Foo", <<xStruct>>, "k.go", line, <<9>>) IN
  << AssignStmt(<<Ident("e", NoObj)>>, <<c(1)>>),
     GoStmt(c(2)),
     DeferStmt(c(3)),
     SendStmt(Ident("ch", ValueSpecDecl), c(4)),
     ReturnStmt(<<c(5), BinaryExpr(c(6), "+", BasicLit("1"))>>),
     SwitchStmt(c(7), <<CaseClause(<<c(8)>>)>>),
     CaseClause(<<c(8)>>),
     IfStmt(c(9)),
     ForStmt(UnaryExpr("!", c(14))),
     ExprStmt(CompositeLit(<<KeyValueExpr(c(10), c(11))>>)),
     ExprStmt(ParenExpr(c(12))),
     ExprStmt(Foo(pkgPkg, "Foo", <<c(13)>>, "k.go", 13, <<1>>)) >>

WalkInputs == CallFiles \cup {MainFile, AFile, BFile, StructFile, IfFile, KindsFile}

WalkInit ==
  /\ cfgParam = ""
  /\ usrCfg = LoadFailed
  /\ loaded = [err |-> TRUE, pkgs |-> <<>>]
  /\ cfg \in RuleTables
  /\ pkgs = <<>>
  /\ pc = "visitor"
  /\ next = 0
  /\ wg = 0
  /\ mut = 0
  /\ gpc = <<>>
  /\ verrors = <<>>
  /\ appends = <<>>
  /\ errs = <<>>
  /\ stdout = <<>>
  /\ printed = 0
  /\ ret = NoReturn
  /\ exitCode = -1
  /\ todo \in WalkInputs
  /\ visited = <<>>
  /\ verr = <<>>
  /\ vpanic = FALSE

\* ast.Walk's next call of v.Visit; a panic ends the walk.
VisitNode ==
  /\ todo # <<>>
  /\ ~vpanic
  /\ \E out \in Visit(Head(todo), cfg) :
       /\ vpanic' = out.panic
       /\ verr' = verr \o out.errors
  /\ visited' = Append(visited, Head(todo))
  /\ todo' = Tail(todo)
  /\ UNCHANGED <<runVars, cfg>>

WalkNext == VisitNode

WalkSpec == WalkInit /\ [][WalkNext]_vars

----------------------------------------------------------------------------
(* reportErrors on any errors *)

\* The most errors in a slice handed to reportErrors on its own.
MaxErrs == 2

\* OutParamErrors of any content: two files, two lines, two columns, two
\* source texts.
Violations ==
  { [Pos |-> [Filename |-> f, Line |-> l, Column |-> c],
     Line |-> t, Method |-> "Foo", Argument |-> 0]
    : f \in {"a.go", "b.go"}, l \in {1, 2}, c \in {3, 7}, t \in {"Foo(x)", "Foo(y)"} }

\* Run at its test of len(errs), with any errs.
ReportInit ==
  /\ cfgParam = ""
  /\ usrCfg = Loaded(EmptyCfg)
  /\ loaded = [err |-> FALSE, pkgs |-> <<>>]
  /\ cfg = defaultCfg
  /\ pkgs = <<>>
  /\ pc = "ran"
  /\ next = 0
  /\ wg = 0
  /\ mut = 0
  /\ gpc = <<>>
  /\ verrors = <<>>
  /\ appends = <<>>
  /\ errs \in SeqsUpTo(Violations, MaxErrs)
  /\ stdout = <<>>
  /\ printed = 0
  /\ ret = NoReturn
  /\ exitCode = -1
  /\ todo = <<>>
  /\ visited = <<>>
  /\ verr = <<>>
  /\ vpanic = FALSE

ReportNext == Sort \/ PrintLine \/ Fail

ReportSpec == ReportInit /\ [][ReportNext]_vars

----------------------------------------------------------------------------
(* what the claims speak of *)

Range(q) == {q[k] : k \in 1..Len(q)}

\* The calls inspected at the nodes visited so far.
VisitedCalls == UNION {CallsReachedAll(NodeExprs(visited[k])) : k \in 1..Len(visited)}

\* The file being walked.
WalkedFile == visited \o todo

\* The errors in q at argument i (zero-based) of a call.
ErrorsAtArg(q, call, i) ==
  SelectSeq(q, LAMBDA e : e.Pos = Position(call, i) /\ e.Argument = i)

\* The errors in q at any argument of a call.
ErrorsAt(q, call) ==
  SelectSeq(q, LAMBDA e : \E i \in 0..(Len(call.Args) - 1) : e.Pos = Position(call, i))

\* name is a literal suffix of s: s is some string followed by name.
IsLiteralSuffix(s, name) == \E n \in 0..Len(s) : SubSeq(s, n + 1, Len(s)) = name

\* The places <<key, k>> of a table whose key is a literal suffix of the
\* identity: the rules that apply, index by index.
AppliedPlaces(table, identity) ==
  UNION {{<<name, k>> : k \in 1..Len(table[name])}
         : name \in {n \in DOMAIN table : IsLiteralSuffix(identity, n)}}

\* How many applied places name argument i.
Naming(table, identity, i) ==
  Cardinality({p \in AppliedPlaces(table, identity) : table[p[1]][p[2]] = i})

IsAddressOf(e) == e.kind = "UnaryExpr" /\ e.Op = "&"
IsDerefOfAddressOf(e) == e.kind = "StarExpr" /\ IsAddressOf(e.X)
HasAssignment(e) == e.kind = "Ident" /\ e.Decl.kind = "AssignStmt"
IsNilLiteral(e) == e.kind = "Ident" /\ e.Name = "nil" /\ ~HasAssignment(e)

\* x := e, one name and one expression; and so is every identifier the
\* chain from it passes through.
RECURSIVE IsShortAssigned(_)
IsShortAssigned(e) ==
  /\ HasAssignment(e)
  /\ Len(e.Decl.Lhs) = 1
  /\ Len(e.Decl.Rhs) = 1
  /\ (e.Decl.Rhs[1].kind = "Ident" /\ HasAssignment(e.Decl.Rhs[1])
        => IsShortAssigned(e.Decl.Rhs[1]))

\* The expression assigned to an identifier: the one at its own place.
SourceOf(e) ==
  e.Decl.Rhs[CHOOSE k \in 1..Len(e.Decl.Lhs) : e.Decl.Lhs[k] = e.Name]

\* Address-taking, as the classifier's contract words it.
RECURSIVE AddressTaking(_)
AddressTaking(e) ==
  \/ IsAddressOf(e)
  \/ IsDerefOfAddressOf(e)
  \/ IsNilLiteral(e)
  \/ (HasAssignment(e) /\ AddressTaking(SourceOf(e)))

----------------------------------------------------------------------------
(* C2 *)

\* C2: a rule applies to a resolved call exactly when its key is a literal
\* suffix of the call's identity.  In a walk that has not panicked, the
\* errors recorded at a resolved call are as many as the applied places
\* whose argument isAddr rejects; with a rule "pkg.Foo" on index 0 this
\* gives an error at calls of identity "pkg.Foo" and "vendor/other/pkg.Foo"
\* with a non-address first argument, and none from that rule at
\* "pkg.FooBar"; and a call no key is a suffix of records no error and
\* does not panic, whatever its arguments.
C2_SuffixMatching ==
  /\ ~vpanic =>
       \A c \in VisitedCalls :
         LET res == keyAndName(c) IN
         res.ok =>
           /\ Len(ErrorsAt(verr, c)) =
                Cardinality({p \in AppliedPlaces(cfg, res.key) :
                               /\ cfg[p[1]][p[2]] < Len(c.Args)
                               /\ ~isAddr(c.Args[cfg[p[1]][p[2]] + 1])})
           /\ ("pkg.Foo" \in DOMAIN cfg /\ cfg["pkg.Foo"] = <<0>>
                 /\ Len(c.Args) > 0 /\ ~isAddr(c.Args[1])
                 /\ res.key \in {"pkg.Foo", "vendor/other/pkg.Foo"}
                 => ErrorsAtArg(verr, c, 0) # <<>>)
           /\ (DOMAIN cfg = {"pkg.Foo", "encoding/json.Unmarshal"}
                 /\ res.key = "pkg.FooBar"
                 => ErrorsAt(verr, c) = <<>>)
  /\ \A k \in 1..Len(visited) :
       \A c \in CallsReachedAll(NodeExprs(visited[k])) :
         LET res == keyAndName(c) IN
         (res.ok /\ \A name \in DOMAIN cfg : ~IsLiteralSuffix(res.key, name))
           => /\ ErrorsAt(verr, c) = <<>>
              /\ (Len(visited) = 1 /\ Cardinality(CallsReachedAll(NodeExprs(visited[1]))) = 1
                    => ~vpanic)

\* A vendored call matched by the shorter key, and flagged.
C2_Witness ==
  /\ ~vpanic
  /\ "pkg.Foo" \in DOMAIN cfg
  /\ \E c \in VisitedCalls :
       /\ keyAndName(c).ok
       /\ keyAndName(c).key = "vendor/other/pkg.Foo"
       /\ ErrorsAtArg(verr, c, 0) # <<>>

----------------------------------------------------------------------------
(* C3 *)

MainFileError ==
  [Pos |-> [Filename |-> "/go/src/m/main.go", Line |-> 11, Column |-> 23],
   Line |-> "json.Unmarshal(j, x)", Method |-> "Unmarshal", Argument |-> 1]

\* C3: at a call matched by a rule on index i, the argument at i records
\* no error when it is &e, *&e or the literal nil, and one error per
\* applied place naming i (so exactly one when one rule names i once), each
\* with Argument i and the bare callee name, when it is any other
\* expression that is not an identifier, or an identifier without a
\* defining assignment.  The four Unmarshal calls of the fixture, under
\* {"encoding/json.Unmarshal": [1]}, record exactly one error: at the first
\* call, Argument 1, Method "Unmarshal".
C3_ArgumentForms ==
  /\ ~vpanic =>
       \A c \in VisitedCalls :
         LET res == keyAndName(c) IN
         res.ok =>
           \A i \in 0..(Len(c.Args) - 1) :
             LET arg == c.Args[i + 1]
                 n == Naming(cfg, res.key, i)
                 found == ErrorsAtArg(verr, c, i)
             IN n > 0 =>
                  /\ (IsAddressOf(arg) \/ IsDerefOfAddressOf(arg) \/ IsNilLiteral(arg))
                       => found = <<>>
                  /\ ((arg.kind # "Ident" /\ ~IsAddressOf(arg) /\ ~IsDerefOfAddressOf(arg))
                        \/ (arg.kind = "Ident" /\ ~HasAssignment(arg) /\ arg.Name # "nil"))
                       => /\ Len(found) = n
                          /\ \A e \in Range(found) : e.Method = res.name
  /\ (WalkedFile = MainFile /\ todo = <<>> /\ cfg = defaultCfg)
       => ~vpanic /\ verr = <<MainFileError>>

\* The fixture walked to its end under the default table.
C3_Witness ==
  /\ WalkedFile = MainFile
  /\ todo = <<>>
  /\ cfg = defaultCfg
  /\ Len(verr) = 1

----------------------------------------------------------------------------
(* C4 *)

\* C4: at a call matched by a rule on the index of x, where x is an
\* identifier declared by a short assignment x := e (also in the init
\* clause of an if statement), no error is recorded when e is
\* address-taking and one per applied place naming the index when it is
\* not; x is classified as e is, through chains of such identifiers.  The
\* fixtures: "struct based" records one error, at the call passing
\* x := A{}, and none at the call passing pointerX := &x; "declared within
\* if block" records none.
C4_ShortAssignedIdentifier ==
  /\ ~vpanic =>
       \A c \in VisitedCalls :
         LET res == keyAndName(c) IN
         res.ok =>
           \A i \in 0..(Len(c.Args) - 1) :
             LET arg == c.Args[i + 1]
                 n == Naming(cfg, res.key, i)
             IN (n > 0 /\ IsShortAssigned(arg)) =>
                  /\ Len(ErrorsAtArg(verr, c, i)) = IF AddressTaking(arg) THEN 0 ELSE n
                  /\ isAddr(arg) = AddressTaking(SourceOf(arg))
  /\ (WalkedFile = StructFile /\ todo = <<>>)
       => /\ ~vpanic
          /\ Len(verr) = 1
          /\ verr[1].Pos = [Filename |-> "/go/src/m/main.go", Line |-> 11, Column |-> 23]
          /\ verr[1].Argument = 1
  /\ (WalkedFile = IfFile /\ todo = <<>>) => ~vpanic /\ verr = <<>>

\* The "struct based" fixture walked to its end: x := A{} flagged,
\* pointerX := &x not.
C4_Witness ==
  /\ WalkedFile = StructFile
  /\ todo = <<>>
  /\ Len(verr) = 1
  /\ ErrorsAt(verr, StructFile[5].X) = <<>>
  /\ ErrorsAt(verr, StructFile[4].X) # <<>>

----------------------------------------------------------------------------
(* C1 *)

\* The user's table as Run sees it: empty when no -config is given.
UserTable == IF cfgParam # "" THEN usrCfg.cfg ELSE EmptyCfg

\* Run has built cfg and goes on to the analysis.
ConfigBuilt == pc \in {"load", "run", "ran", "print"} \/ (pc = "exited" /\ ret.kind # "config")

\* C1: the table Run hands to the analysis holds, for a key of only one of
\* the default and the user's table, that table's value, and for a key of
\* both the default table's value.
C1_DefaultsWin ==
  ConfigBuilt =>
    /\ DOMAIN cfg = DOMAIN defaultCfg \cup DOMAIN UserTable
    /\ \A k \in DOMAIN defaultCfg : cfg[k] = defaultCfg[k]
    /\ \A k \in DOMAIN UserTable \ DOMAIN defaultCfg : cfg[k] = UserTable[k]

\* The user redefines a default key, and adds one of their own.
C1_Witness ==
  /\ pc = "run"
  /\ \E k \in DOMAIN UserTable \cap DOMAIN defaultCfg :
       UserTable[k] # defaultCfg[k] /\ cfg[k] = defaultCfg[k]
  /\ \E k \in DOMAIN UserTable \ DOMAIN defaultCfg : cfg[k] = UserTable[k]

----------------------------------------------------------------------------
(* C5 *)

\* A rule applies to a call of the package and names an index the call
\* has no argument for.
IndexBeyondCall(pkg, table) ==
  \E f \in 1..Len(pkg.Syntax) : \E k \in 1..Len(pkg.Syntax[f]) :
    \E c \in CallsReachedAll(NodeExprs(pkg.Syntax[f][k])) :
      /\ keyAndName(c).ok
      /\ \E p \in AppliedPlaces(table, keyAndName(c).key) :
           table[p[1]][p[2]] >= Len(c.Args)

\* The calls of a package that the visitor inspects.
PackageCalls(pkg) ==
  UNION {UNION {CallsReachedAll(NodeExprs(pkg.Syntax[f][k]))
                : k \in 1..Len(pkg.Syntax[f])}
         : f \in 1..Len(pkg.Syntax)}

\* C5: an index of a matching rule that is not below the call's number of
\* arguments is skipped: the goroutine does not panic and goes on to hand
\* in its errors, and every error recorded carries an index into the
\* arguments of its call.
C5_IndexBeyondCallSkipped ==
  \A g \in DOMAIN gpc :
    /\ IndexBeyondCall(pkgs[g], cfg) => gpc[g] # "panicked" /\ pc # "killed"
    /\ \A e \in Range(verrors[g]) :
         \E c \in PackageCalls(pkgs[g]) :
           /\ 0 <= e.Argument /\ e.Argument < Len(c.Args)
           /\ e.Pos = Position(c, e.Argument)

----------------------------------------------------------------------------
(* C6 *)

\* a does not come after b by (file path, line, column, source text).
LocationLE(a, b) ==
  IF a.Pos.Filename # b.Pos.Filename THEN StrLess(a.Pos.Filename, b.Pos.Filename)
  ELSE IF a.Pos.Line # b.Pos.Line THEN a.Pos.Line < b.Pos.Line
  ELSE IF a.Pos.Column # b.Pos.Column THEN a.Pos.Column < b.Pos.Column
  ELSE ~StrLess(b.Line, a.Line)

Reporting == pc = "print" \/ (pc = "exited" /\ ret.kind = "violations")

\* The file and line of each printed line, in the order printed.
PrintedPlaces == [k \in 1..Len(stdout) |-> <<stdout[k].pos[1], stdout[k].pos[2]>>]

\* C6: the lines are printed in non-decreasing order of (file path, line,
\* column, source text): the list reportErrors prints from is in that
\* order and is printed front to back, so of two errors of one file and
\* line the one of the smaller column comes first; errors at b.go:5,
\* a.go:10 and a.go:3 are printed as a.go:3, a.go:10, b.go:5.
C6_ReportOrder ==
  Reporting =>
    /\ \A i, j \in 1..Len(errs) : i < j => LocationLE(errs[i], errs[j])
    /\ \A i, j \in 1..Len(errs) :
         (i < j /\ errs[i].Pos.Filename = errs[j].Pos.Filename
                /\ errs[i].Pos.Line = errs[j].Pos.Line)
           => errs[i].Pos.Column <= errs[j].Pos.Column
    /\ stdout = [k \in 1..printed |-> Error(errs[k])]
    /\ (pc = "exited" /\ Range(PrintedPlaces) = {<<"b.go", 5>>, <<"a.go", 10>>, <<"a.go", 3>>}
          /\ Len(stdout) = 3)
         => PrintedPlaces = << <<"a.go", 3>>, <<"a.go", 10>>, <<"b.go", 5>> >>

\* The three errors of the example, handed in with b.go's first, printed.
C6_Witness ==
  /\ pc = "exited"
  /\ Len(pkgs) = 2
  /\ pkgs[1].ID = "b"
  /\ PrintedPlaces = << <<"a.go", 3>>, <<"a.go", 10>>, <<"b.go", 5>> >>

----------------------------------------------------------------------------
(* C7 *)

\* A total order on errors, by every field.
ErrorBefore(a, b) ==
  IF a.Pos.Filename # b.Pos.Filename THEN StrLess(a.Pos.Filename, b.Pos.Filename)
  ELSE IF a.Pos.Line # b.Pos.Line THEN a.Pos.Line < b.Pos.Line
  ELSE IF a.Pos.Column # b.Pos.Column THEN a.Pos.Column < b.Pos.Column
  ELSE IF a.Line # b.Line THEN StrLess(a.Line, b.Line)
  ELSE IF a.Method # b.Method THEN StrLess(a.Method, b.Method)
  ELSE a.Argument < b.Argument

\* q with its elements in the order ErrorBefore gives.
RECURSIVE InOrder(_)
InOrder(q) ==
  IF q = <<>> THEN <<>>
  ELSE LET m == CHOOSE k \in 1..Len(q) : \A h \in 1..Len(q) : ~ErrorBefore(q[h], q[k])
       IN <<q[m]>> \o InOrder(RemoveAt(q, m))

\* The errors of the packages under a table: one walk of each package in
\* the order given, with one iteration order of the table fixed.
RECURSIVE ErrorsOfPackages(_, _)
ErrorsOfPackages(ps, table) ==
  IF ps = <<>> THEN <<>>
  ELSE (CHOOSE out \in WalkFiles(Head(ps).Syntax, table) : TRUE).errors
       \o ErrorsOfPackages(Tail(ps), table)

\* The output as a function of the packages and the table alone.
OutputOf(ps, table) ==
  LET q == InOrder(ErrorsOfPackages(ps, table)) IN [k \in 1..Len(q) |-> Error(q[k])]

\* C7: the printed lines are a function of the packages and the rule
\* table: whatever the order in which the goroutines hand in their errors
\* and in which a range over the table yields its keys, a run that returns
\* has printed the same sequence of lines.
C7_OutputDetermined ==
  (pc = "exited" /\ ret.kind \in {"nil", "violations"}) => stdout = OutputOf(pkgs, cfg)

\* Two goroutines handed in errors, the later-started one first, and two
\* rules matched one call.
C7_Witness ==
  /\ pc = "exited"
  /\ ret.kind = "violations"
  /\ Len(pkgs) = 2
  /\ Len(verrors[1]) > 0
  /\ Len(verrors[2]) > 1
  /\ DOMAIN cfg = {"pkg.Foo", "Foo", "encoding/json.Unmarshal"}
  /\ stdout # [k \in 1..Len(stdout) |-> Error((verrors[1] \o verrors[2])[k])]

----------------------------------------------------------------------------
(* C8 *)

\* The configuration and every package loaded.
LoadedOk ==
  /\ cfgParam = "" \/ usrCfg.ok
  /\ ~loaded.err
  /\ \A k \in 1..Len(loaded.pkgs) : loaded.pkgs[k].Errors = <<>>

RECURSIVE SumLen(_)
SumLen(qs) == IF qs = <<>> THEN 0 ELSE Len(Head(qs)) + SumLen(Tail(qs))

\* C8: with configuration and packages loaded, Run returns a failure
\* exactly when errors were collected; it has then printed one line per
\* error and its message gives that count, with "error" for 1 and "errors"
\* otherwise, and the process exits 1; with none it prints nothing and
\* exits 0.
C8_FailureIffViolations ==
  (pc = "exited" /\ LoadedOk) =>
    /\ ret.kind \in {"nil", "violations"}
    /\ Len(errs) = SumLen(verrors)
    /\ ret.kind = "violations" <=> Len(errs) > 0
    /\ ret.kind = "violations" =>
         /\ Len(stdout) = Len(errs)
         /\ ret.msg = <<Len(errs), IF Len(errs) = 1 THEN "error" ELSE "errors">>
         /\ exitCode = 1
    /\ ret.kind = "nil" => stdout = <<>> /\ exitCode = 0

\* A run that failed with a single error.
C8_Witness ==
  /\ pc = "exited"
  /\ LoadedOk
  /\ ret.kind = "violations"
  /\ ret.msg = <<1, "error">>
  /\ Len(stdout) = 1

----------------------------------------------------------------------------
(* C9 *)

Count(q, e) == Cardinality({k \in 1..Len(q) : q[k] = e})

RECURSIVE SumCount(_, _)
SumCount(qs, e) == IF qs = <<>> THEN 0 ELSE Count(Head(qs), e) + SumCount(Tail(qs), e)

InAppend(g) == gpc[g] \in {"append", "unlock"}

RunReturned == pc \in {"ran", "print"} \/ (pc = "exited" /\ ret.kind \in {"nil", "violations"})

AtLock(g) == g \in DOMAIN gpc /\ gpc[g] = "lock"

----------------------------------------------------------------------------
(* C10 *)

----------------------------------------------------------------------------
(* C11 *)

\* The keys of a table that are literal suffixes of the identity and list
\* index i.
KeysNaming(table, identity, i) ==
  {name \in DOMAIN table :
     /\ IsLiteralSuffix(identity, name)
     /\ \E k \in 1..Len(table[name]) : table[name][k] = i}

\* C11: in a walk that has not panicked, the errors recorded at argument i
\* of a resolved call are one per pair of a key that is a suffix of the
\* call's identity and a place of that key's list holding i, when the
\* classifier finds the argument not address-taking, and none when it
\* finds it address-taking; so when two different keys are suffixes of the
\* identity and both list i, a non-address argument at i has two errors
\* there, the same record twice.
C11_OnePerRuleAndIndex ==
  ~vpanic =>
    \A c \in VisitedCalls :
      LET res == keyAndName(c) IN
      res.ok =>
        \A i \in 0..(Len(c.Args) - 1) :
          LET arg == c.Args[i + 1]
              found == ErrorsAtArg(verr, c, i)
          IN /\ Len(found) = IF isAddr(arg) THEN 0 ELSE Naming(cfg, res.key, i)
             /\ (Cardinality(KeysNaming(cfg, res.key, i)) >= 2 /\ ~isAddr(arg))
                  => /\ Len(found) >= 2
                     /\ \A k \in 1..Len(found) : found[k] = errorAt(c, i, res.name)

\* pkg.Foo(x, ...) with x := A{} under a table where "pkg.Foo" and "Foo"
\* both list index 0: two errors at the first argument, and none at the
\* first argument of pkg.Foo(nil, ...) in the same file.
C11_Witness ==
  /\ ~vpanic
  /\ {"pkg.Foo", "Foo"} \subseteq DOMAIN cfg
  /\ cfg["pkg.Foo"] = <<0>>
  /\ cfg["Foo"] = <<0>>
  /\ \E c \in VisitedCalls :
       /\ keyAndName(c).ok
       /\ keyAndName(c).key = "pkg.Foo"
       /\ Len(ErrorsAtArg(verr, c, 0)) = 2
       /\ \E d \in VisitedCalls :
            /\ keyAndName(d).ok
            /\ keyAndName(d).key = "pkg.Foo"
            /\ isAddr(d.Args[1])
            /\ ErrorsAtArg(verr, d, 0) = <<>>

----------------------------------------------------------------------------
(* C12 *)

\* The callee is a bare name bound to a package-level definition.
IsPackageLevelName(f) ==
  f.kind = "Ident" /\ f.Uses.ok /\ f.Uses.hasPkg /\ f.Uses.obj # "LocalVar"

\* The callee is a member access on an imported package's alias.
IsAliasMember(f) ==
  f.kind = "SelectorExpr" /\ f.X.kind = "Ident" /\ f.X.Uses.ok /\ f.X.Uses.obj = "PkgName"

\* The callee is a member access on a value whose static type is known.
IsTypedMember(f) == f.kind = "SelectorExpr" /\ f.Types.ok

\* The callee is a bare name bound to a local variable.
IsLocalFunctionValue(f) == f.kind = "Ident" /\ f.Uses.ok /\ f.Uses.obj = "LocalVar"

\* The callee is a bare name with no binding.
IsUnboundName(f) == f.kind = "Ident" /\ ~f.Uses.ok

\* C12: keyAndName returns ok only for a bare name bound to a
\* package-level definition, a member access on a package alias, or a
\* member access on a value of known static type; a call whose callee is a
\* bare name bound to a local variable, or a bare name with no binding,
\* resolves with ok false and has no error recorded at it, under any table.
C12_ResolverOk ==
  \A c \in VisitedCalls :
    LET res == keyAndName(c)
        f == c.Fun
    IN /\ res.ok => (IsPackageLevelName(f) \/ IsAliasMember(f) \/ IsTypedMember(f))
       /\ (IsLocalFunctionValue(f) \/ IsUnboundName(f))
            => (~res.ok /\ ErrorsAt(verr, c) = <<>>)

----------------------------------------------------------------------------
(* C13 *)

\* Every call expression in an expression: the expression itself, and the
\* calls in its callee, arguments and operands.
RECURSIVE CallsIn(_)
RECURSIVE CallsInAll(_)
CallsIn(e) ==
  CASE e.kind = "CallExpr" -> {e} \cup CallsIn(e.Fun) \cup CallsInAll(e.Args)
    [] e.kind \in {"UnaryExpr", "StarExpr", "ParenExpr", "SelectorExpr"} -> CallsIn(e.X)
    [] e.kind = "BinaryExpr" -> CallsIn(e.X) \cup CallsIn(e.Y)
    [] e.kind = "KeyValueExpr" -> CallsIn(e.Key) \cup CallsIn(e.Value)
    [] e.kind = "CompositeLit" -> CallsInAll(e.Elts)
    [] OTHER -> {}

CallsInAll(exprs) ==
  IF exprs = <<>> THEN {} ELSE CallsIn(Head(exprs)) \cup CallsInAll(Tail(exprs))

\* Every call expression in the expressions a statement holds.
StmtCalls(node) ==
  CASE node.kind = "AssignStmt" -> CallsInAll(node.Lhs) \cup CallsInAll(node.Rhs)
    [] node.kind \in {"GoStmt", "DeferStmt"} -> CallsIn(node.Call)
    [] node.kind = "SendStmt" -> CallsIn(node.Chan) \cup CallsIn(node.Value)
    [] node.kind = "ReturnStmt" -> CallsInAll(node.Results)
    [] node.kind = "SwitchStmt" -> CallsIn(node.Tag) \cup CallsInAll(CaseLists(node.Body))
    [] node.kind = "CaseClause" -> CallsInAll(node.List)
    [] node.kind \in {"IfStmt", "ForStmt"} -> CallsIn(node.Cond)
    [] node.kind = "ExprStmt" -> CallsIn(node.X)
    [] OTHER -> {}

\* How many times the walk so far has inspected a call.
Inspections(c) == Count(InspectedInWalk(visited), c)

\* C13: no call expression is inspected twice, and when a walk has ended
\* every call expression in a statement of the file (in an assignment, an
\* expression statement, a send, go, defer or return statement, a
\* condition of an if or a for statement, a switch tag or a case label),
\* nested in another call, in parentheses or under a unary operator
\* included, has been inspected once; so under a rule on index 0 of
\* "pkg.Foo" every call pkg.Foo(x) with x := A{} has one error.
C13_EveryCallOnce ==
  /\ \A k \in 1..Len(visited) : \A c \in StmtCalls(visited[k]) : Inspections(c) <= 1
  /\ (todo = <<>> /\ ~vpanic) =>
       \A k \in 1..Len(visited) :
         \A c \in StmtCalls(visited[k]) :
           /\ Inspections(c) = 1
           /\ (/\ keyAndName(c).ok
               /\ keyAndName(c).key = "pkg.Foo"
               /\ DOMAIN cfg = {"pkg.Foo", "encoding/json.Unmarshal"}
               /\ cfg["pkg.Foo"] = <<0>>
               /\ Len(c.Args) = 1
               /\ c.Args[1] = xStruct)
                => Len(ErrorsAtArg(verr, c, 0)) = 1

----------------------------------------------------------------------------
(* C14 *)

\* The packages that packages.Load returned with errors.
FailingUnits == {k \in 1..Len(loaded.pkgs) : Len(loaded.pkgs[k].Errors) > 0}

\* C14: when packages came back with load errors, no goroutine is ever
\* started and nothing is analysed or printed, and the failure Run returns
\* holds the load errors of every failing package, not of the first only.
C14_LoadErrorsAggregated ==
  (~loaded.err /\ FailingUnits # {}) =>
    /\ pc \in {"Run", "load", "exited"}
    /\ next = 0
    /\ wg = 0
    /\ \A g \in DOMAIN gpc : gpc[g] = "unstarted"
    /\ errs = <<>>
    /\ stdout = <<>>
    /\ (pc = "exited" /\ ret.kind # "config") =>
         /\ ret.kind = "load"
         /\ \A k \in FailingUnits :
              \A e \in Range(loaded.pkgs[k].Errors) : e \in Range(ret.errors)

----------------------------------------------------------------------------
(* C15 *)

\* C15: of two errors that reportErrors has sorted, whatever they hold,
\* Less never puts each before the other; in particular not when they have the
\* same file and line, the first has the larger column and the first's
\* source text is the smaller.
C15_LessStrict ==
  pc # "ran" =>
  \A a, b \in Range(errs) :
    /\ ~(Less(a, b) /\ Less(b, a))
    /\ (/\ a.Pos.Filename = b.Pos.Filename
        /\ a.Pos.Line = b.Pos.Line
        /\ a.Pos.Column > b.Pos.Column
        /\ StrLess(a.Line, b.Line))
         => ~Less(a, b)

----------------------------------------------------------------------------
(* C16 *)

\* The identifier was declared by an assignment of several names.
IsMultiAssigned(e) == HasAssignment(e) /\ Len(e.Decl.Lhs) > 1

\* C16: at a call matched by a rule on the index of an identifier declared
\* by a, b := e1, e2, the identifier is classified as the expression at
\* its own place on the right is: for a, p := A{}, &x the argument p has
\* no error, and for p, a := &x, A{} the argument a has one per applied
\* place naming its index.
C16_MultiValuePositional ==
  ~vpanic =>
    \A c \in VisitedCalls :
      LET res == keyAndName(c) IN
      res.ok =>
        \A i \in 0..(Len(c.Args) - 1) :
          LET arg == c.Args[i + 1]
              n == Naming(cfg, res.key, i)
              found == ErrorsAtArg(verr, c, i)
          IN (n > 0 /\ IsMultiAssigned(arg)) =>
               /\ isAddr(arg) = isAddr(SourceOf(arg))
               /\ Len(found) = IF isAddr(SourceOf(arg)) THEN 0 ELSE n
               /\ arg = pSecond => found = <<>>
               /\ arg = aSecond => Len(found) = n

====
